---- MODULE Spec2Model ----
(***************************************************************************)
(* Model of auto-renderer.py: the render-rotations operator                *)
(* (OBJECT_OT_render_rotations.execute with setup_compositor) and the two  *)
(* scene utilities (OBJECT_OT_clean_and_merge, OBJECT_OT_create_root).     *)
(*                                                                         *)
(* Text is modelled as a sequence of one-character strings, so that path   *)
(* formatting is computed and not assumed.  Keyframe positions (floats in  *)
(* the host) are modelled in tenths of a frame.  An angle in radians is    *)
(* the pair (n, d) standing for n*pi/d.                                    *)
(***************************************************************************)
EXTENDS Integers, Sequences, FiniteSets, TLC

(* ------------------------------ bounds --------------------------------- *)
\* a run is explored for step angles giving at most MaxSteps steps ...
MaxSteps == 8
\* ... that are multiples of StepGrain
StepGrain == 5
\* total number of keyframe points over all curves
MaxKeyPoints == 2
\* number of objects a scene holds (scene utilities)
MaxObjects == 5

(* ------------------------- program constants --------------------------- *)
StepAngleMin == 1
StepAngleMax == 360
FullTurn == 360
PixelSize == 5

(* ------------------------------- text ---------------------------------- *)
DefaultBaseName == <<"m","y","_","r","e","n","d","e","r">>
DefaultOutputPath == <<"/","/","r","e","n","d","e","r","s","/">>
DefaultPostOutputPath == <<"/","/","p","o","s","t","/">>
\* directory of the saved document, which a leading "//" stands for
BlendDir == <<"/","d","/">>
\* keyframe positions, in tenths of a frame: -0.5, 3.2, 3.9, 45.0
Positions == {-5, 32, 39, 450}

DigitChar == <<"0","1","2","3","4","5","6","7","8","9">>

\* str(n) of a non-negative int as the f-string formats it: decimal, no padding
RECURSIVE FormatInt(_)
FormatInt(n) ==
  IF n < 10 THEN <<DigitChar[n + 1]>>
  ELSE FormatInt(n \div 10) \o <<DigitChar[(n % 10) + 1]>>

\* bpy.path.abspath: a leading "//" is replaced by the document's directory
abspath(p) ==
  IF Len(p) >= 2 /\ p[1] = "/" /\ p[2] = "/"
  THEN BlendDir \o SubSeq(p, 3, Len(p))
  ELSE p

\* os.makedirs(p, exist_ok=True): p and every ancestor directory of p
MakeDirs(p) == { SubSeq(p, 1, k) : k \in { j \in 1..Len(p) : p[j] = "/" } }

\* RawPath without the sequence index
RawPathNoIndex(pr, n) ==
  pr.output_path \o pr.base_name \o <<".","p","n","g">>

\* f"{props.output_path}{props.base_name}_{counter}.png"
RawPath(pr, n) ==
  pr.output_path \o pr.base_name \o <<"_">> \o FormatInt(n) \o <<".","p","n","g">>

\* f"{props.post_output_path}{props.base_name}_{counter}_pixel.png"
PostPath(pr, n) ==
  pr.post_output_path \o pr.base_name \o <<"_">> \o FormatInt(n)
    \o <<"_","p","i","x","e","l">> \o <<".","p","n","g">>

(* ----------------------------- arithmetic ------------------------------ *)
\* IntOf rounding to the nearest frame instead of truncating
IntOfRounded(x) == (x + 5) \div 10

\* int(kp.co[0]): truncation toward zero of a position given in tenths
IntOf(x) == IF x >= 0 THEN x \div 10 ELSE -((-x) \div 10)

\* StepsOf rounding up, so that the remainder sector gets a step
StepsOfCeil(s) == (FullTurn + s - 1) \div s

\* int(360 / props.step_angle): the float quotient truncated, which for a step angle
\* in 1..360 is the integer quotient (a non-integer 360/s is at least 1/360 away from
\* the next integer, far more than the rounding error of the division)
StepsOf(s) == FullTurn \div s

\* math.radians(deg) = deg * pi / 180
radians(deg) == <<deg, 180>>

\* Incr skipping an index
IncrTwice(n) == n + 2

\* counter += 1
Incr(n) == n + 1

Min(S) == CHOOSE x \in S : \A y \in S : x <= y

\* sorted(keyframes)
RECURSIVE sorted(_)
sorted(S) == IF S = {} THEN <<>> ELSE <<Min(S)>> \o sorted(S \ {Min(S)})

\* CollectKeyframes falling back to frame 1 when the object has no keyframe
CollectKeyframesOrFirst(o) ==
  IF o.animation_data /\ o.action
       /\ \E c \in DOMAIN o.fcurves : o.fcurves[c] # <<>>
  THEN UNION { { IntOf(o.fcurves[c][k]) : k \in DOMAIN o.fcurves[c] } :
               c \in DOMAIN o.fcurves }
  ELSE {1}

\* the keyframe set built by the two nested loops over fcurves / keyframe_points
CollectKeyframes(o) ==
  IF o.animation_data /\ o.action
  THEN UNION { { IntOf(o.fcurves[c][k]) : k \in DOMAIN o.fcurves[c] } :
               c \in DOMAIN o.fcurves }
  ELSE {}

(* --------------------------- compositor graph -------------------------- *)
Node(kind, sx, sy, x) == [kind |-> kind, size_x |-> sx, size_y |-> sy, location |-> x]

\* the animation curves of an action (say rotation and location)
Curves == {1, 2}

\* the graph setup_compositor leaves: Render Layers -> Pixelate -> Composite
PixelateNodes(pixel_size) ==
  << Node("CompositorNodeRLayers", 0, 0, -300),
     Node("CompositorNodePixelate", pixel_size, pixel_size, 0),
     Node("CompositorNodeComposite", 0, 0, 300) >>

PixelateLinks == << <<1, 2>>, <<2, 3>> >>

\* graphs a scene may hold before a run: none, or the host's default graph
NoGraph == [use_nodes |-> FALSE, nodes |-> <<>>, links |-> <<>>]
HostDefaultGraph ==
  [use_nodes |-> TRUE,
   nodes |-> << Node("CompositorNodeRLayers", 0, 0, 0),
                Node("CompositorNodeComposite", 0, 0, 200) >>,
   links |-> << <<1, 2>> >>]
PriorGraphs == {NoGraph, HostDefaultGraph}

(* ------------------------------- inputs -------------------------------- *)
StepAngles ==
  { s \in StepAngleMin..StepAngleMax : s % StepGrain = 0 /\ StepsOf(s) <= MaxSteps }

PropsSet ==
  [base_name : {DefaultBaseName},
   step_angle : StepAngles,
   output_path : {DefaultOutputPath},
   post_output_path : {DefaultPostOutputPath, DefaultOutputPath}]

\* keyframe points of an action: at most MaxKeyPoints (curve, position) pairs
KeyPointSets ==
  { P \in SUBSET (Curves \X Positions) : Cardinality(P) <= MaxKeyPoints }

\* the curves of an action holding the points P, each curve ordered by time
FCurvesOf(P) ==
  [c \in Curves |-> sorted({ q[2] : q \in { r \in P : r[1] = c } })]

\* what context.active_object can be
ActiveObjects ==
  { [present |-> FALSE, animation_data |-> FALSE, action |-> FALSE, fcurves |-> <<>>],
    [present |-> TRUE, animation_data |-> FALSE, action |-> FALSE, fcurves |-> <<>>],
    [present |-> TRUE, animation_data |-> TRUE, action |-> FALSE, fcurves |-> <<>>] }
  \cup
  { [present |-> TRUE, animation_data |-> TRUE, action |-> TRUE, fcurves |-> FCurvesOf(P)] :
      P \in KeyPointSets }

(* -------------------------------- state -------------------------------- *)
VARIABLES
  props,           \* scene.render_props
  obj,             \* context.active_object and its animation data
  rotation_z,      \* obj.rotation_euler[2]
  frame_current,   \* scene.frame_current
  filepath,        \* scene.render.filepath
  graph,           \* scene.use_nodes and scene.node_tree
  dirs,            \* directories that exist on disk
  disk,            \* image files on disk
  pc,              \* position of execute
  keyframes,       \* local: the keyframe set
  frames,          \* local: sorted(keyframes) from the current frame on
  steps,           \* local
  i,               \* local: inner loop index
  counter,         \* local
  reports,         \* self.report calls
  result,          \* what execute returned or raised
  renders,         \* log of bpy.ops.render.render calls
  setups,          \* log of setup_compositor calls
  objects,         \* bpy.data.objects (scene utilities)
  active,          \* view_layer.objects.active (scene utilities)
  last_op          \* the scene utility that ran last, with its pre-state

render_vars ==
  << props, obj, rotation_z, frame_current, filepath, graph, dirs, disk, pc,
     keyframes, frames, steps, i, counter, reports, result, renders, setups >>
scene_vars == << objects, active, last_op >>
vars == << render_vars, scene_vars >>

NoOp == [name |-> "none", objects |-> <<>>]

InitRenderVars ==
  /\ props \in PropsSet
  /\ obj \in ActiveObjects
  /\ rotation_z = radians(0)
  /\ frame_current = 1
  /\ filepath = <<"/","t","m","p","/">>
  /\ graph \in PriorGraphs
  /\ dirs = {}
  /\ disk = {}
  /\ pc = "start"
  /\ keyframes = {}
  /\ frames = <<>>
  /\ steps = 0
  /\ i = 0
  /\ counter = 0
  /\ reports = <<>>
  /\ result = "none"
  /\ renders = <<>>
  /\ setups = <<>>

Init ==
  /\ InitRenderVars
  /\ objects = <<>>
  /\ active = 0
  /\ last_op = NoOp

(* ----------------- OBJECT_OT_render_rotations.execute ------------------ *)
local_vars == << keyframes, frames, steps, i, counter >>
host_vars == << rotation_z, frame_current, filepath, graph, dirs, disk, renders, setups >>

\* if not obj: report and return CANCELLED
NoActiveObject ==
  /\ pc = "start"
  /\ ~obj.present
  /\ reports' = Append(reports, <<"ERROR", "No active object selected">>)
  /\ result' = "CANCELLED"
  /\ pc' = "done"
  /\ UNCHANGED << props, obj, host_vars, local_vars, scene_vars >>

Begin ==
  /\ pc = "start"
  /\ obj.present
  /\ pc' = "makedirs"
  /\ UNCHANGED << props, obj, host_vars, local_vars, reports, result, scene_vars >>

\* EnsureFolders creating the raw output folder only
EnsureFoldersRawOnly ==
  /\ pc = "makedirs"
  /\ dirs' = dirs \cup MakeDirs(abspath(props.output_path))
  /\ pc' = "compositor"
  /\ UNCHANGED << props, obj, rotation_z, frame_current, filepath, graph, disk,
                  renders, setups, local_vars, reports, result, scene_vars >>

\* both os.makedirs calls succeed
EnsureFolders ==
  /\ pc = "makedirs"
  /\ dirs' = dirs \cup MakeDirs(abspath(props.output_path))
                  \cup MakeDirs(abspath(props.post_output_path))
  /\ pc' = "compositor"
  /\ UNCHANGED << props, obj, rotation_z, frame_current, filepath, graph, disk,
                  renders, setups, local_vars, reports, result, scene_vars >>

\* the first or the second os.makedirs call raises OSError
EnsureFoldersFail ==
  /\ pc = "makedirs"
  /\ \/ dirs' = dirs
     \/ dirs' = dirs \cup MakeDirs(abspath(props.output_path))
  /\ result' = "OSError"
  /\ pc' = "raised"
  /\ UNCHANGED << props, obj, rotation_z, frame_current, filepath, graph, disk,
                  renders, setups, local_vars, reports, scene_vars >>

\* setup_compositor(pixel_size): clear the node tree and build the three nodes
setup_compositor(pixel_size) ==
  /\ graph' = [use_nodes |-> TRUE,
               nodes |-> PixelateNodes(pixel_size),
               links |-> PixelateLinks]
  /\ setups' = Append(setups, [pixel_size |-> pixel_size, renders_before |-> Len(renders)])

SetupCompositorOnce ==
  /\ pc = "compositor"
  /\ setup_compositor(PixelSize)
  /\ pc' = "collect"
  /\ UNCHANGED << props, obj, rotation_z, frame_current, filepath, dirs, disk,
                  renders, local_vars, reports, result, scene_vars >>

\* if not keyframes: report and return CANCELLED
NoKeyframes ==
  /\ pc = "collect"
  /\ CollectKeyframes(obj) = {}
  /\ keyframes' = {}
  /\ reports' = Append(reports, <<"ERROR", "No keyframes found">>)
  /\ result' = "CANCELLED"
  /\ pc' = "done"
  /\ UNCHANGED << props, obj, host_vars, frames, steps, i, counter, scene_vars >>

\* keyframes collected; counter = 1; steps = int(360 / step_angle); loop entered
PlanJobs ==
  /\ pc = "collect"
  /\ CollectKeyframes(obj) # {}
  /\ keyframes' = CollectKeyframes(obj)
  /\ counter' = 1
  /\ steps' = StepsOf(props.step_angle)
  /\ frames' = sorted(CollectKeyframes(obj))
  /\ pc' = "frame"
  /\ UNCHANGED << props, obj, host_vars, i, reports, result, scene_vars >>

\* FrameSet leaving the timeline where it is
FrameSetSkipped ==
  /\ pc = "frame"
  /\ frames # <<>>
  /\ i' = 0
  /\ pc' = IF steps > 0 THEN "raw" ELSE "next"
  /\ UNCHANGED << props, obj, rotation_z, frame_current, filepath, graph, dirs, disk,
                  renders, setups, keyframes, frames, steps, counter, reports, result,
                  scene_vars >>

\* for frame in sorted(keyframes): scene.frame_set(frame)
FrameSet ==
  /\ pc = "frame"
  /\ frames # <<>>
  /\ frame_current' = Head(frames)
  /\ i' = 0
  /\ pc' = IF steps > 0 THEN "raw" ELSE "next"
  /\ UNCHANGED << props, obj, rotation_z, filepath, graph, dirs, disk, renders, setups,
                  keyframes, frames, steps, counter, reports, result, scene_vars >>

\* the outer loop is exhausted: return FINISHED
Finish ==
  /\ pc = "frame"
  /\ frames = <<>>
  /\ result' = "FINISHED"
  /\ pc' = "done"
  /\ UNCHANGED << props, obj, host_vars, local_vars, reports, scene_vars >>

\* a bpy.ops.render.render call as the log records it
RenderCall(stage, yaw, path, ok) ==
  [frame_current |-> frame_current, rotation_z |-> yaw, filepath |-> path, ok |-> ok,
   frame |-> Head(frames), i |-> i, counter |-> counter, stage |-> stage]

\* rotation set, raw_path set, the raw render call returns or raises
RenderRawStep(ok) ==
  /\ pc = "raw"
  /\ rotation_z' = radians(i * props.step_angle)
  /\ filepath' = RawPath(props, counter)
  /\ renders' = Append(renders,
                  RenderCall("raw", radians(i * props.step_angle), RawPath(props, counter), ok))
  /\ disk' = IF ok THEN disk \cup {RawPath(props, counter)} ELSE disk
  /\ pc' = IF ok THEN "post" ELSE "raised"
  /\ result' = IF ok THEN result ELSE "RuntimeError"
  /\ UNCHANGED << props, obj, frame_current, graph, dirs, setups, local_vars, reports,
                  scene_vars >>

RenderRaw == RenderRawStep(TRUE)
RenderRawFail == RenderRawStep(FALSE)

\* RenderPostStep swallowing a failure of the render call and carrying on
RenderPostStepSuppressed(ok) ==
  /\ pc = "post"
  /\ filepath' = PostPath(props, counter)
  /\ renders' = Append(renders, RenderCall("post", rotation_z, PostPath(props, counter), ok))
  /\ disk' = IF ok THEN disk \cup {PostPath(props, counter)} ELSE disk
  /\ counter' = Incr(counter)
  /\ i' = i + 1
  /\ pc' = IF i + 1 < steps THEN "raw" ELSE "next"
  /\ UNCHANGED << props, obj, rotation_z, frame_current, graph, dirs, setups,
                  keyframes, frames, steps, reports, result, scene_vars >>

\* post_path set, the second render call returns or raises, counter += 1
RenderPostStep(ok) ==
  /\ pc = "post"
  /\ filepath' = PostPath(props, counter)
  /\ renders' = Append(renders, RenderCall("post", rotation_z, PostPath(props, counter), ok))
  /\ disk' = IF ok THEN disk \cup {PostPath(props, counter)} ELSE disk
  /\ IF ok
     THEN /\ counter' = Incr(counter)
          /\ i' = i + 1
          /\ pc' = IF i + 1 < steps THEN "raw" ELSE "next"
          /\ result' = result
     ELSE /\ pc' = "raised"
          /\ result' = "RuntimeError"
          /\ UNCHANGED << counter, i >>
  /\ UNCHANGED << props, obj, rotation_z, frame_current, graph, dirs, setups,
                  keyframes, frames, steps, reports, scene_vars >>

RenderPost == RenderPostStep(TRUE)
RenderPostFail == RenderPostStep(FALSE)

\* range(steps) is exhausted: on to the next frame of sorted(keyframes)
NextFrame ==
  /\ pc = "next"
  /\ frames' = Tail(frames)
  /\ pc' = "frame"
  /\ UNCHANGED << props, obj, host_vars, keyframes, steps, i, counter, reports, result,
                  scene_vars >>

Next ==
  \/ NoActiveObject
  \/ Begin
  \/ EnsureFolders
  \/ EnsureFoldersFail
  \/ SetupCompositorOnce
  \/ NoKeyframes
  \/ PlanJobs
  \/ FrameSet
  \/ Finish
  \/ RenderRaw
  \/ RenderRawFail
  \/ RenderPost
  \/ RenderPostFail
  \/ NextFrame

Spec == Init /\ [][Next]_vars

(* --------------------------- scene utilities --------------------------- *)
ObjectTypes == {"EMPTY", "MESH", "CAMERA"}

Obj(type, select, parent, name) ==
  [type |-> type, select |-> select, parent |-> parent, name |-> name]

\* bpy.ops.object.select_all(action='DESELECT')
DeselectAll(objs) == [o \in DOMAIN objs |-> [objs[o] EXCEPT !.select = FALSE]]

\* for obj in bpy.data.objects: if obj.type == 'EMPTY': obj.select_set(True)
SelectEmpties(objs) ==
  [o \in DOMAIN objs |->
     IF objs[o].type = "EMPTY" THEN [objs[o] EXCEPT !.select = TRUE] ELSE objs[o]]

\* bpy.ops.object.delete(): the selected objects go, their children lose the parent
DeleteSelected(objs) ==
  LET kept == { o \in DOMAIN objs : ~objs[o].select }
  IN  [o \in kept |->
         IF objs[o].parent \in kept THEN objs[o] ELSE [objs[o] EXCEPT !.parent = 0]]

\* [o for o in context.selected_objects if o.type == 'MESH']
SelectedMeshes(objs) ==
  sorted({ o \in DOMAIN objs : objs[o].select /\ objs[o].type = "MESH" })

\* bpy.ops.object.join(): the selected meshes are merged into the active one
Join(objs, act) ==
  LET gone == { o \in DOMAIN objs : objs[o].select /\ objs[o].type = "MESH" /\ o # act }
      kept == DOMAIN objs \ gone
  IN  [o \in kept |->
         IF objs[o].parent \in gone THEN [objs[o] EXCEPT !.parent = act] ELSE objs[o]]

\* OBJECT_OT_clean_and_merge.execute
CleanAndMerge ==
  LET cleaned == DeleteSelected(SelectEmpties(DeselectAll(objects)))
      meshes == SelectedMeshes(cleaned)
      act == IF active \in DOMAIN cleaned THEN active ELSE 0
  IN  /\ IF Len(meshes) > 1
         THEN /\ active' = meshes[1]
              /\ objects' = Join(cleaned, meshes[1])
         ELSE /\ active' = act
              /\ objects' = cleaned
      /\ last_op' = [name |-> "clean_and_merge", objects |-> objects]
      /\ UNCHANGED render_vars

\* bpy.ops.object.empty_add: the new empty is the only selected object and is active
EmptyAdd(objs, id) ==
  [o \in DOMAIN objs \cup {id} |->
     IF o = id THEN Obj("EMPTY", TRUE, 0, "Empty") ELSE [objs[o] EXCEPT !.select = FALSE]]

\* OBJECT_OT_create_root.execute
CreateRoot ==
  /\ Cardinality(DOMAIN objects) < MaxObjects
  /\ LET selected == { o \in DOMAIN objects : objects[o].select }
         root == Min((1..MaxObjects) \ DOMAIN objects)
         added == EmptyAdd(objects, root)
     IN  /\ objects' =
               [o \in DOMAIN added |->
                  IF o = root THEN [added[o] EXCEPT !.name = "ROOT"]
                  ELSE IF o \in selected THEN [added[o] EXCEPT !.parent = root]
                  ELSE added[o]]
         /\ active' = root
  /\ last_op' = [name |-> "create_root", objects |-> objects]
  /\ UNCHANGED render_vars

\* scenes the utilities may be invoked on
Scenes ==
  UNION { [1..n -> { Obj(t, sel, 0, "Object") : t \in ObjectTypes, sel \in BOOLEAN }] :
          n \in 0..MaxObjects }

InitScene ==
  /\ props = CHOOSE pr \in PropsSet : TRUE
  /\ obj = CHOOSE o \in ActiveObjects : ~o.present
  /\ rotation_z = radians(0)
  /\ frame_current = 1
  /\ filepath = <<>>
  /\ graph = NoGraph
  /\ dirs = {}
  /\ disk = {}
  /\ pc = "start"
  /\ keyframes = {}
  /\ frames = <<>>
  /\ steps = 0
  /\ i = 0
  /\ counter = 0
  /\ reports = <<>>
  /\ result = "none"
  /\ renders = <<>>
  /\ setups = <<>>
  /\ objects \in Scenes
  /\ active = 0
  /\ last_op = NoOp

NextScene ==
  \/ CleanAndMerge
  \/ CreateRoot

SpecScene == InitScene /\ [][NextScene]_vars

(* ====================== properties of a render run ===================== *)
Abs(x) == IF x >= 0 THEN x ELSE 0 - x

\* floor(360 / s), stated by its defining inequalities
FloorTurn(s) == CHOOSE n \in 0..FullTurn : n * s <= FullTurn /\ FullTurn < (n + 1) * s

\* the integer part of a position given in tenths, stated by its defining inequalities
Truncated(x) ==
  CHOOSE n \in ((x \div 10) - 1)..((x \div 10) + 1) :
    /\ Abs(n) * 10 <= Abs(x)
    /\ Abs(x) < Abs(n) * 10 + 10
    /\ (x >= 0 => n >= 0)
    /\ (x <= 0 => n <= 0)

\* every keyframe point of the active object's action, over all curves
KeyPoints ==
  IF obj.animation_data /\ obj.action
  THEN UNION { { obj.fcurves[c][k] : k \in DOMAIN obj.fcurves[c] } : c \in DOMAIN obj.fcurves }
  ELSE {}

\* the keyframe set K of the run
K == { Truncated(x) : x \in KeyPoints }

Calls == 1..Len(renders)
RawCalls == { r \in Calls : renders[r].stage = "raw" }
PostCalls == { r \in Calls : renders[r].stage = "post" }
\* yaw of a render call, in degrees
Degrees(r) == (renders[r].rotation_z[1] * 180) \div renders[r].rotation_z[2]
Finished == pc = "done" /\ result = "FINISHED"
InLoop == pc \in {"frame", "raw", "post", "next"}

\* C1: a completed run has rendered exactly |K| * floor(360/S) jobs, for each frame of
\* K exactly the angles {i*S : 0 <= i < floor(360/S)}; every rendered angle is in [0,360)
C1_JobCountAndAngles ==
  LET S == props.step_angle
      n == FloorTurn(S)
      kk == K
      raw == RawCalls
  IN  /\ \A r \in Calls : Degrees(r) >= 0 /\ Degrees(r) < FullTurn
      /\ Finished =>
           /\ Cardinality(raw) = Cardinality(kk) * n
           /\ Len(renders) = 2 * Cardinality(kk) * n
           /\ \A f \in kk :
                { Degrees(r) : r \in { q \in raw : renders[q].frame_current = f } }
                  = { j * S : j \in 0..(n - 1) }
           /\ \A r \in Calls : renders[r].frame_current \in kk

C1_Witness ==
  /\ Finished
  /\ FullTurn % props.step_angle # 0
  /\ FloorTurn(props.step_angle) > 1
  /\ Cardinality(K) = 2

\* C2: the counter values used for jobs are exactly 1..total with no gap, repeat or
\* reset, and job (frame f, step i) uses index rank(f) * steps + i + 1
C2_SequenceIndex ==
  LET S == props.step_angle
      n == FloorTurn(S)
      kk == K
      raw == RawCalls
      total == Cardinality(kk) * n
  IN  /\ \A r \in Calls :
           renders[r].counter
             = Cardinality({ g \in kk : g < renders[r].frame_current }) * n
               + (Degrees(r) \div S) + 1
      /\ \A r \in raw : renders[r].counter = Cardinality({ q \in raw : q <= r })
      /\ \A a, b \in raw : renders[a].counter = renders[b].counter => a = b
      /\ InLoop => counter = Cardinality(PostCalls) + 1
      /\ Finished => { renders[r].counter : r \in raw } = 1..total

C2_Witness ==
  /\ Finished
  /\ Cardinality(K) = 2
  /\ FloorTurn(props.step_angle) = 3
  /\ \E r \in RawCalls : renders[r].counter = 6 /\ Degrees(r) = 2 * props.step_angle

ReportNoActiveObject == << <<"ERROR", "No active object selected">> >>
ReportNoKeyframes == << <<"ERROR", "No keyframes found">> >>

\* C3: a run without an active object ends CANCELLED with "No active object selected",
\* a run whose object has no keyframe point ends CANCELLED with "No keyframes found",
\* and neither ever invokes the render call
C3_ValidationFailsWithoutRender ==
  /\ (~obj.present \/ KeyPoints = {}) => renders = <<>> /\ disk = {} /\ ~InLoop
  /\ (pc = "done" /\ ~obj.present) =>
       result = "CANCELLED" /\ reports = ReportNoActiveObject
  /\ (pc = "done" /\ obj.present /\ KeyPoints = {}) =>
       result = "CANCELLED" /\ reports = ReportNoKeyframes

C3_Witness ==
  /\ pc = "done"
  /\ obj.present /\ obj.animation_data /\ obj.action
  /\ KeyPoints = {}
  /\ reports = ReportNoKeyframes

\* C4: a run that aborts with NoActiveObject or NoKeyframes has created no output
\* directory and has left the compositor graph unchanged
C4_ValidationBeforeSetup ==
  result = "CANCELLED" => dirs = {} /\ setups = <<>> /\ graph \in PriorGraphs

\* C6: within a stage no two render calls of a run target the same path; the n-th job
\* renders to output_path + base_name + "_" + n + ".png" and to
\* post_output_path + base_name + "_" + n + "_pixel.png"
C6_NoPathCollision ==
  LET raw == RawCalls
      post == PostCalls
  IN  /\ \A a, b \in raw : a # b => renders[a].filepath # renders[b].filepath
      /\ \A a, b \in post : a # b => renders[a].filepath # renders[b].filepath
      /\ \A r \in raw :
           renders[r].filepath = RawPath(props, Cardinality({ q \in raw : q <= r }))
      /\ \A r \in post :
           renders[r].filepath = PostPath(props, Cardinality({ q \in post : q <= r }))
      /\ Cardinality(disk) = Cardinality({ r \in Calls : renders[r].ok })

C6_Witness ==
  /\ Finished
  /\ \E a, b \in RawCalls :
       /\ renders[a].frame_current # renders[b].frame_current
       /\ Degrees(a) = Degrees(b)
       /\ Degrees(a) > 0
  /\ props.output_path = props.post_output_path

\* C7: the frames of a run are the integer-truncated positions of all keyframe points
\* of all curves, visited strictly ascending, each frame getting one set of jobs
C7_KeyframeSequence ==
  LET kk == K
      raw == RawCalls
  IN  /\ \A a, b \in Calls : a < b => renders[a].frame_current <= renders[b].frame_current
      /\ \A a, b \in raw :
           (renders[a].frame_current = renders[b].frame_current /\ Degrees(a) = Degrees(b))
             => a = b
      /\ \A r \in Calls : renders[r].frame_current \in kk
      /\ InLoop => keyframes = kk
      /\ Finished => { renders[r].frame_current : r \in Calls } = kk

C7_Witness ==
  /\ Finished
  /\ KeyPoints = {32, 39}
  /\ { renders[r].frame_current : r \in Calls } = {3}
  /\ Cardinality(RawCalls) = FloorTurn(props.step_angle)

\* C8: at every render call the timeline, the yaw and the target path are those of the
\* job being rendered; every job is rendered raw and then post before the next job
\* starts, so a completed run has made 2 * total render calls
C8_ScratchStateMatchesJob ==
  LET S == props.step_angle
      n == FloorTurn(S)
      kk == K
  IN  /\ \A r \in Calls :
           LET job == (r + 1) \div 2
               call == renders[r]
           IN  /\ call.stage = (IF r % 2 = 1 THEN "raw" ELSE "post")
               /\ call.frame_current \in kk
               /\ Cardinality({ g \in kk : g < call.frame_current }) = (job - 1) \div n
               /\ call.rotation_z = <<((job - 1) % n) * S, 180>>
               /\ call.filepath = (IF r % 2 = 1 THEN RawPath(props, job)
                                   ELSE PostPath(props, job))
      /\ renders # <<>> =>
           /\ filepath = renders[Len(renders)].filepath
           /\ rotation_z = renders[Len(renders)].rotation_z
      /\ pc = "post" => Len(renders) % 2 = 1 /\ frame_current = renders[Len(renders)].frame_current
      /\ Finished => Len(renders) = 2 * Cardinality(kk) * n

C8_Witness ==
  /\ Finished
  /\ Cardinality(K) = 2
  /\ FloorTurn(props.step_angle) = 2
  /\ Len(renders) = 8
  /\ renders[7].rotation_z # renders[5].rotation_z
  /\ renders[5].frame_current # renders[4].frame_current

\* C9: whenever the job loop runs or a render call has been made, both output folders
\* exist and the compositor has been configured exactly once, with pixel size 5, before
\* the first render call, and holds the three-node graph
C9_SetupPrecedesRendering ==
  (InLoop \/ renders # <<>>) =>
    /\ abspath(props.output_path) \in dirs
    /\ abspath(props.post_output_path) \in dirs
    /\ setups = << [pixel_size |-> 5, renders_before |-> 0] >>
    /\ graph.use_nodes
    /\ [n \in DOMAIN graph.nodes |-> graph.nodes[n].kind]
         = <<"CompositorNodeRLayers", "CompositorNodePixelate", "CompositorNodeComposite">>
    /\ graph.nodes[2].size_x = 5 /\ graph.nodes[2].size_y = 5
    /\ graph.links = << <<1, 2>>, <<2, 3>> >>

C9_Witness ==
  /\ Finished
  /\ Len(renders) >= 4
  /\ props.output_path # props.post_output_path
  /\ Cardinality(dirs) >= 4

\* C10: a failed render call is the last call of the run: the run ends with the error
\* raised, nothing is retried, and the files of the calls that completed stay on disk
C10_RenderFailureAborts ==
  /\ \A r \in Calls :
       ~renders[r].ok => r = Len(renders) /\ pc = "raised" /\ result = "RuntimeError"
  /\ disk = { renders[r].filepath : r \in { q \in Calls : renders[q].ok } }
  /\ \A a, b \in Calls :
       (renders[a].counter = renders[b].counter /\ renders[a].stage = renders[b].stage)
         => a = b
  /\ (pc = "raised" /\ renders # <<>>) => ~renders[Len(renders)].ok /\ reports = <<>>

C10_Witness ==
  /\ pc = "raised"
  /\ Len(renders) = 4
  /\ ~renders[4].ok
  /\ Cardinality(disk) = 3
  /\ RawPath(props, 2) \in disk

(* ==================== properties of the scene utilities ================ *)
\* C5: clean-and-merge on a scene with e empties and m >= 2 selected meshes deletes the
\* e empties and merges the m meshes into one: the object count drops by e + (m - 1)
C5_CleanAndMergeCounts ==
  LET before == last_op.objects
      e == Cardinality({ o \in DOMAIN before : before[o].type = "EMPTY" })
      sel == { o \in DOMAIN before : before[o].type = "MESH" /\ before[o].select }
      m == Cardinality(sel)
  IN  (last_op.name = "clean_and_merge" /\ m >= 2) =>
        /\ Cardinality(DOMAIN objects) = Cardinality(DOMAIN before) - (e + (m - 1))
        /\ Cardinality(sel \cap DOMAIN objects) = 1
        /\ \A o \in DOMAIN objects : objects[o].type # "EMPTY"
====
